---- MODULE Spec2Model ----
(***************************************************************************)
(* A model of src/boids.c: the boids screensaver's frame loop (main), its  *)
(* mode scheduler (key toggles, check_auto_mode_timing), the flocking and  *)
(* pattern update (update_boids) and the curve library.                    *)
(*                                                                         *)
(* Numbers.  The program computes in C float.  The model computes in fixed *)
(* point: a float value v is the integer v * FP, and every float operation *)
(* that rounds (multiplication, division, sqrtf, a libm call) rounds to    *)
(* the nearest multiple of 1/FP, as IEEE arithmetic rounds to the nearest  *)
(* float.  Additions of fixed-point values are exact.  sin, cos and exp    *)
(* are rational approximations of the libm functions.                      *)
(***************************************************************************)
EXTENDS Integers, Sequences, FiniteSets

(***************************************************************************)
(* Bounds of the model.                                                    *)
(***************************************************************************)
\* The population (NUM_BOIDS is 500 in the source).
NumBoids == 2
\* Frames a manual-mode run is followed for, and the frames in which a
\* resize can arrive.
MaxTicks == 1
\* Seconds of wall clock an auto-mode run is followed for.
MaxTime == 96
\* Largest width, height and parameter of the curve evaluations of SpecCurve.
CurveMaxDim == 3
CurveMaxT == 3

(***************************************************************************)
(* Program constants.                                                      *)
(***************************************************************************)
FP == 100
MAX_SPEED == 4 * FP
NEIGHBOR_RADIUS == 50
ALIGNMENT_WEIGHT == <<5, 100>>
COHESION_WEIGHT == <<1, 100>>
SEPARATION_WEIGHT == <<15, 100>>
PATTERN_FORCE == <<2, 10>>
PATTERN_SEPARATION_WEIGHT == <<1, 1000>>
BOIDS_TIME == 30
PATTERN_TIME == 35
PATTERN_STEP == FP \div 100

MODE_NORMAL == 0
MODE_LISSAJOUS == 1
MODE_ROSE == 2
MODE_HYPOCYCLOID == 3
MODE_BUTTERFLY == 4
MODE_MAURER_ROSE == 5
MODE_SPIROGRAPH == 6
MODE_FERMAT_SPIRAL == 7
MODE_CARDIOID == 8
Patterns == MODE_LISSAJOUS .. MODE_CARDIOID
FlockingMode == {MODE_NORMAL} \cup Patterns

(***************************************************************************)
(* Float arithmetic, in fixed point.                                       *)
(***************************************************************************)
Min(a, b) == IF a < b THEN a ELSE b

\* a / b rounded to the nearest integer (b > 0), ties away from zero.
RoundDivPos(a, b) ==
  IF a >= 0 THEN (2 * a + b) \div (2 * b) ELSE -((2 * (-a) + b) \div (2 * b))

RoundDiv(a, b) == IF b > 0 THEN RoundDivPos(a, b) ELSE RoundDivPos(-a, -b)

\* float * float
FMul(a, b) == RoundDiv(a * b, FP)

\* float / float, b # 0
FDiv(a, b) == RoundDiv(a * FP, b)

\* float * weight, the weight a rational <<numerator, denominator>>
Weighted(a, w) == RoundDiv(a * w[1], w[2])

RECURSIVE ISqrtIn(_, _, _)
ISqrtIn(n, lo, hi) ==
  IF lo >= hi THEN lo
  ELSE LET mid == (lo + hi + 1) \div 2
       IN IF mid * mid <= n THEN ISqrtIn(n, mid, hi) ELSE ISqrtIn(n, lo, mid - 1)

\* r is the integer square root of n: the nearest integer to the square root.
NearestRoot(n, r) == IF n - r * r > r THEN r + 1 ELSE r

\* sqrtf: the square root of the float a >= 0, rounded to nearest.
Sqrt(a) == NearestRoot(a * FP, ISqrtIn(a * FP, 0, 46340))

PI == RoundDiv(314159 * FP, 100000)

\* sin on [0, PI], Bhaskara's rational approximation.
SinHalf(x) ==
  RoundDiv(16 * x * (PI - x) * FP, 5 * PI * PI - 4 * x * (PI - x))

\* sin of y in [0, 2 PI)
SinPeriod(y) == IF y <= PI THEN SinHalf(y) ELSE -SinHalf(y - PI)

Sin(x) == SinPeriod(x % (2 * PI))

Cos(x) == Sin(x + RoundDiv(PI, 2))

\* c * c' where c' is a power of c
Pow2(c) == FMul(c, c)

Pow3(c) == FMul(Pow2(c), c)

Pow4(c) == FMul(Pow3(c), c)

\* pow(s, 5)
Pow5(s) == FMul(Pow4(s), s)

\* exp on [-1, 1], the Taylor polynomial of degree 5.
Exp(c) ==
  FP + c + RoundDiv(Pow2(c), 2) + RoundDiv(Pow3(c), 6) + RoundDiv(Pow4(c), 24)
     + RoundDiv(Pow5(c), 120)

(***************************************************************************)
(* Curve library.  A point is [x, y, nan]: nan is TRUE when the float      *)
(* computation produced a NaN (a division 0/0), and x, y are then unused.  *)
(***************************************************************************)
Point(px, py) == [x |-> px, y |-> py, nan |-> FALSE]

NaNPoint == [x |-> 0, y |-> 0, nan |-> TRUE]

get_scale_factor(w, h) == RoundDiv(Min(w, h) * FP * 3, 10)

\* width/2 and height/2 are integer divisions of ints, then converted.
Half(n) == (n \div 2) * FP

\* The point at radius r and angle a about the centre of the viewport.
Polar(w, h, r, a) == Point(Half(w) + FMul(r, Cos(a)), Half(h) + FMul(r, Sin(a)))

LissajousAt(t, w, h, scale) ==
  Point(Half(w) + FMul(scale, Sin(3 * t)),
        Half(h) + FMul(scale, Sin(2 * t + RoundDiv(PI, 2))))

calculate_lissajous_position(t, w, h) ==
  LissajousAt(t, w, h, get_scale_factor(w, h))

calculate_rose_position(t, w, h) ==
  Polar(w, h, FMul(get_scale_factor(w, h), Sin(3 * t)), t)

\* The divisor r of (R-r)*t/r in the hypocycloid: r = R/4, R the scale.
HypocycloidDivisor(w, h) == RoundDiv(get_scale_factor(w, h), 4)

\* (R-r)*t/r, r # 0
RollingAngle(t, Rr, r) == FDiv(FMul(Rr, t), r)

\* x = cx + (R-r) cos t + d cos a, y = cy + (R-r) sin t - d sin a
RollingPoint(t, w, h, Rr, d, a) ==
  Point(Half(w) + FMul(Rr, Cos(t)) + FMul(d, Cos(a)),
        Half(h) + FMul(Rr, Sin(t)) - FMul(d, Sin(a)))

\* The body shared by the hypocycloid and the spirograph: a zero r makes
\* (R-r)*t/r the division 0/0, since R-r is then zero too.
RollingCircle(t, w, h, R, r, d) ==
  IF r = 0 THEN NaNPoint
  ELSE RollingPoint(t, w, h, R - r, d, RollingAngle(t, R - r, r))

calculate_hypocycloid_position(t, w, h) ==
  RollingCircle(t, w, h, get_scale_factor(w, h), HypocycloidDivisor(w, h),
                HypocycloidDivisor(w, h))

\* exp(cos(t)) - 2 * cos(4*t) + pow(sin(t/12), 5)
ButterflyRadius(t) == Exp(Cos(t)) - 2 * Cos(4 * t) + Pow5(Sin(RoundDiv(t, 12)))

ButterflyAt(t, w, h, half, r) ==
  Point(Half(w) + FMul(FMul(half, Sin(t)), r),
        Half(h) + FMul(FMul(half, Cos(t)), r))

calculate_butterfly_position(t, w, h) ==
  ButterflyAt(t, w, h, RoundDiv(get_scale_factor(w, h), 2), ButterflyRadius(t))

\* scale * (0.8 + 0.2 * sin(n * k * PI/180)), n = 7
MaurerRadius(scale, k) ==
  FMul(scale, RoundDiv(8 * FP, 10)
              + RoundDiv(2 * Sin(RoundDiv(7 * k * PI, 180 * FP)), 10))

\* k = t * d, d = 71
MaurerAt(w, h, scale, k) ==
  Polar(w, h, MaurerRadius(scale, k), RoundDiv(k * PI, 180 * FP))

calculate_maurer_rose_position(t, w, h) ==
  MaurerAt(w, h, RoundDiv(get_scale_factor(w, h) * 15, 10), t * 71)

\* R = scale * 0.8
SpirographR(w, h) == RoundDiv(get_scale_factor(w, h) * 8, 10)

\* The divisor r of (R-r)*t/r in the spirograph: r = R * 0.4.
SpirographDivisor(w, h) == RoundDiv(SpirographR(w, h) * 4, 10)

calculate_spirograph_position(t, w, h) ==
  RollingCircle(t, w, h, SpirographR(w, h), SpirographDivisor(w, h),
                RoundDiv(SpirographDivisor(w, h) * 8, 10))

calculate_fermat_spiral_position(t, w, h) ==
  Polar(w, h, FMul(RoundDiv(get_scale_factor(w, h) * 5, 10), Sqrt(t)), t * 5)

calculate_cardioid_position(t, w, h) ==
  Polar(w, h, FMul(RoundDiv(get_scale_factor(w, h) * 9, 10), FP + Cos(t)), t)

\* The switch of apply_pattern_force.
CurvePoint(mode, t, w, h) ==
  CASE mode = MODE_LISSAJOUS -> calculate_lissajous_position(t, w, h)
    [] mode = MODE_ROSE -> calculate_rose_position(t, w, h)
    [] mode = MODE_HYPOCYCLOID -> calculate_hypocycloid_position(t, w, h)
    [] mode = MODE_BUTTERFLY -> calculate_butterfly_position(t, w, h)
    [] mode = MODE_MAURER_ROSE -> calculate_maurer_rose_position(t, w, h)
    [] mode = MODE_SPIROGRAPH -> calculate_spirograph_position(t, w, h)
    [] mode = MODE_FERMAT_SPIRAL -> calculate_fermat_spiral_position(t, w, h)
    [] mode = MODE_CARDIOID -> calculate_cardioid_position(t, w, h)

(***************************************************************************)
(* Flocking engine.  bs is the array boids[], a function on 0..NumBoids-1  *)
(* of records [x, y, vx, vy]; the index of a boid is its key.              *)
(***************************************************************************)
Indices == 0 .. (NumBoids - 1)

\* sqrtf(dx * dx + dy * dy)
Norm(dx, dy) == Sqrt(FMul(dx, dx) + FMul(dy, dy))

Speed(b) == Norm(b.vx, b.vy)

\* b with its velocity scaled to MAX_SPEED when speed, its speed, exceeds it.
ScaledDown(b, speed) ==
  IF speed > MAX_SPEED
  THEN [b EXCEPT !.vx = FMul(FDiv(b.vx, speed), MAX_SPEED),
                 !.vy = FMul(FDiv(b.vy, speed), MAX_SPEED)]
  ELSE b

limit_speed(b) == ScaledDown(b, Speed(b))

ZeroScan ==
  [avg_vx |-> 0, avg_vy |-> 0, center_x |-> 0, center_y |-> 0,
   avoid_x |-> 0, avoid_y |-> 0, count |-> 0]

\* The body of the inner loop of update_boids: boid bj at offset (dx, dy) and
\* distance dist.
Accumulate(acc, bj, dx, dy, dist) ==
  IF dist < NEIGHBOR_RADIUS * FP /\ dist > 0
  THEN [avg_vx |-> acc.avg_vx + bj.vx,
        avg_vy |-> acc.avg_vy + bj.vy,
        center_x |-> acc.center_x + bj.x,
        center_y |-> acc.center_y + bj.y,
        avoid_x |-> IF dist < (NEIGHBOR_RADIUS \div 2) * FP
                    THEN acc.avoid_x - dx ELSE acc.avoid_x,
        avoid_y |-> IF dist < (NEIGHBOR_RADIUS \div 2) * FP
                    THEN acc.avoid_y - dy ELSE acc.avoid_y,
        count |-> acc.count + 1]
  ELSE acc

\* The inner loop of update_boids over j, from j on, for boid i.
RECURSIVE NeighborScan(_, _, _, _)
NeighborScan(bs, i, j, acc) ==
  IF j >= NumBoids THEN acc
  ELSE IF i = j THEN NeighborScan(bs, i, j + 1, acc)
  ELSE NeighborScan(bs, i, j + 1,
         Accumulate(acc, bs[j], bs[j].x - bs[i].x, bs[j].y - bs[i].y,
                    Norm(bs[j].x - bs[i].x, bs[j].y - bs[i].y)))

\* The neighbor count of boid i in the array bs.
NeighborCount(bs, i) == NeighborScan(bs, i, 0, ZeroScan).count

\* Alignment and cohesion, given the averages.
AlignCohere(b, avg_vx, avg_vy, center_x, center_y) ==
  [b EXCEPT !.vx = b.vx + Weighted(avg_vx - b.vx, ALIGNMENT_WEIGHT)
                        + Weighted(center_x - b.x, COHESION_WEIGHT),
            !.vy = b.vy + Weighted(avg_vy - b.vy, ALIGNMENT_WEIGHT)
                        + Weighted(center_y - b.y, COHESION_WEIGHT)]

\* b.vx += avoid_x * weight; b.vy += avoid_y * weight
Separate(b, avoid_x, avoid_y, weight) ==
  [b EXCEPT !.vx = b.vx + Weighted(avoid_x, weight),
            !.vy = b.vy + Weighted(avoid_y, weight)]

\* A flocking step whose count test guards the averaging alone.
FlockForceUnguarded(b, acc) ==
  Separate(AlignCohere(b,
             IF acc.count > 0 THEN RoundDiv(acc.avg_vx, acc.count) ELSE 0,
             IF acc.count > 0 THEN RoundDiv(acc.avg_vy, acc.count) ELSE 0,
             IF acc.count > 0 THEN RoundDiv(acc.center_x, acc.count) ELSE 0,
             IF acc.count > 0 THEN RoundDiv(acc.center_y, acc.count) ELSE 0),
           acc.avoid_x, acc.avoid_y, SEPARATION_WEIGHT)

\* The three flocking rules applied to boid b = bs[i], given its scan.
FlockForce(b, acc) ==
  IF acc.count > 0
  THEN Separate(AlignCohere(b, RoundDiv(acc.avg_vx, acc.count),
                               RoundDiv(acc.avg_vy, acc.count),
                               RoundDiv(acc.center_x, acc.count),
                               RoundDiv(acc.center_y, acc.count)),
                acc.avoid_x, acc.avoid_y, SEPARATION_WEIGHT)
  ELSE b

\* The body of the loop of apply_separation_force, acc = <<avoid_x, avoid_y, count>>.
AccumulateNear(acc, dx, dy, dist) ==
  IF dist < (NEIGHBOR_RADIUS \div 2) * FP /\ dist > 0
  THEN <<acc[1] - dx, acc[2] - dy, acc[3] + 1>>
  ELSE acc

\* The loop of apply_separation_force over j, from j on.
RECURSIVE SeparationScan(_, _, _, _)
SeparationScan(bs, i, j, acc) ==
  IF j >= NumBoids THEN acc
  ELSE IF i = j THEN SeparationScan(bs, i, j + 1, acc)
  ELSE SeparationScan(bs, i, j + 1,
         AccumulateNear(acc, bs[j].x - bs[i].x, bs[j].y - bs[i].y,
                        Norm(bs[j].x - bs[i].x, bs[j].y - bs[i].y)))

SeparateBy(b, acc, weight) ==
  IF acc[3] > 0 THEN Separate(b, acc[1], acc[2], weight) ELSE b

\* b is the boid bs[i] with its velocity already steered.
apply_separation_force(bs, i, b, weight) ==
  SeparateBy(b, SeparationScan(bs, i, 0, <<0, 0, 0>>), weight)

\* The parameter of boid i on the curve: (float)index / NUM_BOIDS * 10.0 + pattern_time.
CurveParameter(i, pt) == RoundDiv(i * FP, NumBoids) * 10 + pt

\* The steering of b by the offset (dx, dy) of its target, at distance dist.
SteerBy(b, dx, dy, dist) ==
  IF dist > 0
  THEN [b EXCEPT !.vx = b.vx + Weighted(FDiv(dx, dist), PATTERN_FORCE),
                 !.vy = b.vy + Weighted(FDiv(dy, dist), PATTERN_FORCE)]
  ELSE b

\* A NaN target makes dist NaN, and dist > 0 is then false.
Steer(b, target) ==
  IF target.nan THEN b
  ELSE SteerBy(b, target.x - b.x, target.y - b.y,
               Norm(target.x - b.x, target.y - b.y))

apply_pattern_force(bs, i, w, h, mode, pt) ==
  IF mode \notin Patterns THEN bs[i]
  ELSE apply_separation_force(bs, i,
         Steer(bs[i], CurvePoint(mode, CurveParameter(i, pt), w, h)),
         PATTERN_SEPARATION_WEIGHT)

\* One coordinate after integration: the wrap below zero.
WrapLow(p, size) == IF p < 0 THEN p + size * FP ELSE p

\* The wrap at the size.
WrapHigh(p, size) == IF p >= size * FP THEN p - size * FP ELSE p

\* The two wrap tests of a coordinate, in the code's order.
Wrap(p, size) == WrapHigh(WrapLow(p, size), size)

\* boids[i].x += vx; boids[i].y += vy; and the wraps.
Integrate(b, w, h) ==
  [b EXCEPT !.x = Wrap(b.x + b.vx, w), !.y = Wrap(b.y + b.vy, h)]

\* The velocity of boid i after the force of the mode.
Forced(bs, i, w, h, mode, pt) ==
  IF mode = MODE_NORMAL
  THEN FlockForce(bs[i], NeighborScan(bs, i, 0, ZeroScan))
  ELSE apply_pattern_force(bs, i, w, h, mode, pt)

\* The body of the loop of update_boids for boid i.
UpdateOne(bs, i, w, h, mode, pt) ==
  Integrate(limit_speed(Forced(bs, i, w, h, mode, pt)), w, h)

\* The loop of update_boids from boid i on, in place and in index order.  The
\* result carries the boids that had no neighbor at the moment they were processed.
RECURSIVE UpdateFrom(_, _, _, _, _, _, _)
UpdateFrom(bs, alone, i, w, h, mode, pt) ==
  IF i >= NumBoids THEN [boids |-> bs, alone |-> alone]
  ELSE UpdateFrom([bs EXCEPT ![i] = UpdateOne(bs, i, w, h, mode, pt)],
                  IF NeighborCount(bs, i) = 0 THEN alone \cup {i} ELSE alone,
                  i + 1, w, h, mode, pt)

update_boids(bs, w, h, mode, pt) == UpdateFrom(bs, {}, 0, w, h, mode, pt)

(***************************************************************************)
(* Scheduler.                                                              *)
(***************************************************************************)
\* A get_next_pattern_mode whose loop does not compare with last_pattern_mode.
get_next_pattern_mode_any(last) == Patterns

\* The values get_next_pattern_mode can return: rand() % 8 + 1 is drawn again
\* while it equals last_pattern_mode.
get_next_pattern_mode(last) == {m \in Patterns : m # last}

\* The pattern a key toggles (XK_l .. XK_c, either case); "n" is the reset key.
ToggleKeys == {"l", "r", "y", "b", "m", "s", "f", "c"}

Keys == ToggleKeys \cup {"n"}

KeyPattern(k) ==
  CASE k = "l" -> MODE_LISSAJOUS
    [] k = "r" -> MODE_ROSE
    [] k = "y" -> MODE_HYPOCYCLOID
    [] k = "b" -> MODE_BUTTERFLY
    [] k = "m" -> MODE_MAURER_ROSE
    [] k = "s" -> MODE_SPIROGRAPH
    [] k = "f" -> MODE_FERMAT_SPIRAL
    [] k = "c" -> MODE_CARDIOID

\* A switch(key) whose cases set the pattern without the comparison.
KeyPressModeSet(mode, k) == IF k = "n" THEN MODE_NORMAL ELSE KeyPattern(k)

\* The mode after the switch(key) of main, from mode.
KeyPressMode(mode, k) ==
  IF k = "n" THEN MODE_NORMAL
  ELSE IF mode = KeyPattern(k) THEN MODE_NORMAL ELSE KeyPattern(k)

(***************************************************************************)
(* State.                                                                  *)
(***************************************************************************)
VARIABLES
  boids,              \* Boid boids[NUM_BOIDS]
  current_mode,       \* FlockingMode current_mode
  pattern_time,       \* float pattern_time
  auto_mode,          \* int auto_mode
  last_mode_change,   \* time_t last_mode_change
  last_pattern_mode,  \* FlockingMode last_pattern_mode
  width, height,      \* the locals of main
  now,                \* what time(NULL) returns, in seconds since the start
  pc,                 \* the place of main in its loop body
  frames,             \* frames completed, counted up to MaxTicks
  key_hist,           \* history: the key presses main acted on
  fired,              \* history: the kind of mode transition made in this frame
  keys_ignored,       \* history: a key press arrived while auto_mode was set
  auto_log,           \* history: the transitions of check_auto_mode_timing
  tick_pre,           \* history: boids[] before the update of this frame
  tick_alone,         \* history: the boids that update found without neighbor
  curve_eval          \* the curve evaluation of SpecCurve

prog_vars ==
  <<boids, current_mode, pattern_time, auto_mode, last_mode_change,
    last_pattern_mode, width, height, now, pc, frames>>

hist_vars == <<key_hist, fired, keys_ignored, auto_log, tick_pre, tick_alone>>

vars == <<prog_vars, hist_vars, curve_eval>>

\* The window sizes the run sees: XGetWindowAttributes at startup and the
\* ConfigureNotify events.
Sizes == {<<120, 90>>, <<40, 30>>}

\* The sequences of values rand() returns to init_boids that the model starts
\* from, four draws a boid: x, y, vx, vy.
RandStreams ==
  { <<10, 10, 0, 0,     100, 80, 99, 50,   50, 45, 25, 50>>,
    <<10, 10, 50, 50,   100, 80, 50, 50,   50, 45, 50, 50>>,
    <<10, 10, 75, 50,   30, 10, 50, 0,     100, 80, 0, 99>> }

\* ((rand() % 100) / 50.0f - 1.0f) * MAX_SPEED
InitVelocity(r) == FMul(FDiv((r % 100) * FP, 50 * FP) - FP, MAX_SPEED)

init_boids(stream, w, h) ==
  [i \in Indices |->
     [x |-> (stream[4 * i + 1] % w) * FP,
      y |-> (stream[4 * i + 2] % h) * FP,
      vx |-> InitVelocity(stream[4 * i + 3]),
      vy |-> InitVelocity(stream[4 * i + 4])]]

NoKeys == [last |-> "none", from |-> FALSE, twice |-> FALSE, twice_from |-> FALSE]

NoCurve == [mode |-> MODE_NORMAL, divisor |-> 1, nan |-> FALSE]

\* The state main enters its loop in; auto is whether argv holds "--auto".
Init ==
  /\ auto_mode \in {0, 1}
  /\ \E size \in Sizes, stream \in RandStreams :
       /\ width = size[1]
       /\ height = size[2]
       /\ boids = init_boids(stream, size[1], size[2])
  /\ current_mode = MODE_NORMAL
  /\ pattern_time = 0
  /\ now = 0
  /\ last_mode_change = 0
  /\ last_pattern_mode = MODE_LISSAJOUS
  /\ pc = "events"
  /\ frames = 0
  /\ key_hist = NoKeys
  /\ fired = "none"
  /\ keys_ignored = FALSE
  /\ auto_log = <<>>
  /\ tick_pre = boids
  /\ tick_alone = {}
  /\ curve_eval = NoCurve

(***************************************************************************)
(* The loop body of main: the pending events, then the timing check, then  *)
(* the update, then drawing and nanosleep.                                 *)
(***************************************************************************)
\* XNextEvent returns a ConfigureNotify with the size size.
ConfigureNotify(size) ==
  /\ pc = "events"
  /\ frames < MaxTicks
  /\ width' = size[1]
  /\ height' = size[2]
  /\ UNCHANGED <<boids, current_mode, pattern_time, auto_mode, last_mode_change,
                 last_pattern_mode, now, pc, frames, hist_vars, curve_eval>>

\* A key handler that does not test auto_mode.
KeyActsAlways(auto) == TRUE

\* The second operand of e.type == KeyPress && !auto_mode.
KeyActs(auto) == auto = 0

\* XNextEvent returns a KeyPress of key k.
KeyPress(k) ==
  /\ pc = "events"
  /\ IF KeyActs(auto_mode)
     THEN /\ current_mode' = KeyPressMode(current_mode, k)
          /\ pattern_time' = 0
          /\ key_hist' = [last |-> k,
                          from |-> k \in ToggleKeys /\ current_mode = KeyPattern(k),
                          twice |-> key_hist.last = k,
                          twice_from |-> key_hist.from]
          /\ fired' = "key"
          /\ UNCHANGED keys_ignored
     ELSE /\ keys_ignored' = TRUE
          /\ UNCHANGED <<current_mode, pattern_time, key_hist, fired>>
  /\ UNCHANGED <<boids, auto_mode, last_mode_change, last_pattern_mode, width,
                 height, now, pc, frames, auto_log, tick_pre, tick_alone,
                 curve_eval>>

\* XPending returns 0: the event loop ends.
NoPending ==
  /\ pc = "events"
  /\ pc' = "check"
  /\ UNCHANGED <<boids, current_mode, pattern_time, auto_mode, last_mode_change,
                 last_pattern_mode, width, height, now, frames, hist_vars,
                 curve_eval>>

\* A dwell test that is strict.
LeavesNormalLate(mode, elapsed) == mode = MODE_NORMAL /\ elapsed > BOIDS_TIME

\* Whether check_auto_mode_timing leaves Normal, and whether it returns to it.
LeavesNormal(mode, elapsed) == mode = MODE_NORMAL /\ elapsed >= BOIDS_TIME

LeavesPattern(mode, elapsed) == mode # MODE_NORMAL /\ elapsed >= PATTERN_TIME

check_auto_mode_timing ==
  /\ pc = "check"
  /\ pc' = "update"
  /\ LET elapsed == now - last_mode_change
     IN IF auto_mode = 1 /\ LeavesNormal(current_mode, elapsed)
        THEN \E next_mode \in get_next_pattern_mode(last_pattern_mode) :
               /\ last_pattern_mode' = next_mode
               /\ current_mode' = next_mode
               /\ pattern_time' = 0
               /\ last_mode_change' = now
               /\ fired' = "auto"
               /\ auto_log' = Append(auto_log,
                    [at |-> now, to |-> next_mode,
                     choices |-> get_next_pattern_mode(last_pattern_mode)])
        ELSE IF auto_mode = 1 /\ LeavesPattern(current_mode, elapsed)
        THEN /\ current_mode' = MODE_NORMAL
             /\ pattern_time' = 0
             /\ last_mode_change' = now
             /\ fired' = "auto"
             /\ auto_log' = Append(auto_log,
                  [at |-> now, to |-> MODE_NORMAL, choices |-> {}])
             /\ UNCHANGED last_pattern_mode
        ELSE UNCHANGED <<current_mode, pattern_time, last_mode_change,
                         last_pattern_mode, fired, auto_log>>
  /\ UNCHANGED <<boids, auto_mode, width, height, now, frames, key_hist,
                 keys_ignored, tick_pre, tick_alone, curve_eval>>

\* An update_boids that advances the clock in every mode.
AdvanceClockAlways(mode, pt) == pt + PATTERN_STEP

\* The pattern clock after update_boids.
AdvanceClock(mode, pt) == IF mode # MODE_NORMAL THEN pt + PATTERN_STEP ELSE pt

\* update_boids(width, height).  A manual-mode run is followed for MaxTicks
\* frames and an auto-mode run for MaxTime seconds.
UpdateBoids ==
  /\ pc = "update"
  /\ IF auto_mode = 1 THEN now < MaxTime ELSE frames < MaxTicks
  /\ LET r == update_boids(boids, width, height, current_mode, pattern_time)
     IN /\ boids' = r.boids
        /\ tick_alone' = r.alone
  /\ tick_pre' = boids
  /\ pattern_time' = AdvanceClock(current_mode, pattern_time)
  /\ pc' = "sleep"
  /\ UNCHANGED <<current_mode, auto_mode, last_mode_change, last_pattern_mode,
                 width, height, now, frames, key_hist, fired, keys_ignored,
                 auto_log, curve_eval>>

\* Drawing and nanosleep: the frame ends.  The wall clock is read only in auto
\* mode (check_auto_mode_timing returns at once otherwise), and the model
\* follows it there at one frame a second, so that the timing check runs at
\* every whole second.
SleepFrame ==
  /\ pc = "sleep"
  /\ pc' = "events"
  /\ frames' = Min(frames + 1, MaxTicks)
  /\ now' = IF auto_mode = 1 THEN now + 1 ELSE now
  /\ fired' = "none"
  /\ tick_pre' = boids
  /\ tick_alone' = {}
  /\ UNCHANGED <<boids, current_mode, pattern_time, auto_mode, last_mode_change,
                 last_pattern_mode, width, height, key_hist, keys_ignored,
                 auto_log, curve_eval>>

Next ==
  \/ \E size \in Sizes : ConfigureNotify(size)
  \/ \E k \in Keys : KeyPress(k)
  \/ NoPending
  \/ check_auto_mode_timing
  \/ UpdateBoids
  \/ SleepFrame

Spec == Init /\ [][Next]_vars

(***************************************************************************)
(* The curve library on its own: the hypocycloid and the spirograph        *)
(* evaluated at a parameter and a viewport drawn from bounded sets, zero   *)
(* included.  The parameter is that of boid 0, which is pattern_time.      *)
(***************************************************************************)
InitCurve ==
  /\ width \in 0 .. CurveMaxDim
  /\ height \in 0 .. CurveMaxDim
  /\ pattern_time \in {t * FP : t \in 0 .. CurveMaxT}
  /\ boids = [i \in Indices |-> [x |-> 0, y |-> 0, vx |-> 0, vy |-> 0]]
  /\ current_mode = MODE_NORMAL
  /\ auto_mode = 0
  /\ now = 0
  /\ last_mode_change = 0
  /\ last_pattern_mode = MODE_LISSAJOUS
  /\ pc = "events"
  /\ frames = 0
  /\ key_hist = NoKeys
  /\ fired = "none"
  /\ keys_ignored = FALSE
  /\ auto_log = <<>>
  /\ tick_pre = boids
  /\ tick_alone = {}
  /\ curve_eval = NoCurve

EvalHypocycloid ==
  /\ curve_eval' =
       [mode |-> MODE_HYPOCYCLOID,
        divisor |-> HypocycloidDivisor(width, height),
        nan |-> calculate_hypocycloid_position(CurveParameter(0, pattern_time),
                                               width, height).nan]
  /\ UNCHANGED <<prog_vars, hist_vars>>

EvalSpirograph ==
  /\ curve_eval' =
       [mode |-> MODE_SPIROGRAPH,
        divisor |-> SpirographDivisor(width, height),
        nan |-> calculate_spirograph_position(CurveParameter(0, pattern_time),
                                              width, height).nan]
  /\ UNCHANGED <<prog_vars, hist_vars>>

NextCurve ==
  \/ EvalHypocycloid
  \/ EvalSpirograph

SpecCurve == InitCurve /\ [][NextCurve]_vars

(***************************************************************************)
(* Claims.                                                                 *)
(***************************************************************************)
\* pc = "sleep" is the state update_boids returns in.
AfterUpdate == pc = "sleep"

InViewport(b) ==
  /\ 0 <= b.x /\ b.x < width * FP
  /\ 0 <= b.y /\ b.y < height * FP

\* C1: after every call of update_boids every agent has 0 <= x < width and
\* 0 <= y < height, also in a frame whose resize event changed width or height.
C1_InViewportAfterUpdate ==
  AfterUpdate => \A i \in Indices : InViewport(boids[i])

\* C2: after every tick every agent's speed is at most MAX_SPEED; limit_speed
\* leaves a velocity of speed at most MAX_SPEED alone, and applying it twice
\* gives what applying it once gives.
C2_SpeedLimited ==
  \A i \in Indices :
    /\ AfterUpdate => Speed(boids[i]) <= MAX_SPEED
    /\ Speed(boids[i]) <= MAX_SPEED => limit_speed(boids[i]) = boids[i]
    /\ limit_speed(limit_speed(boids[i])) = limit_speed(boids[i])

\* The automatic Normal->Pattern transitions of the run, in order.
IsSelection(entry) == entry.to # MODE_NORMAL

PatternLog == SelectSeq(auto_log, IsSelection)

\* C3: of two consecutive automatic Normal->Pattern transitions, the later
\* selects a pattern other than the one the earlier selected.
C3_NoImmediateRepeat ==
  \A n \in 1 .. (Len(PatternLog) - 1) : PatternLog[n + 1].to # PatternLog[n].to

C3_Witness == auto_mode = 1 /\ Len(PatternLog) >= 2

\* C4: while auto mode is enabled a key press changes neither the mode, nor
\* the pattern clock, nor the auto-mode timer, and the mode changes only in
\* the timing check.
C4_KeysIgnoredInAuto ==
  [][auto_mode = 1 =>
       /\ (\E k \in Keys : KeyPress(k)) =>
            UNCHANGED <<current_mode, pattern_time, last_mode_change>>
       /\ current_mode' # current_mode => pc = "check"]_vars

C4_Witness == auto_mode = 1 /\ keys_ignored /\ current_mode # MODE_NORMAL

\* C5: in auto mode, the timer set at time 0 and the check run every second,
\* the mode is Normal before time 30, the Normal->Pattern transition is made
\* at time 30, the mode is that pattern until the Pattern->Normal transition
\* at time 65, and each transition records its own time as the timer.
C5_DwellTimes ==
  auto_mode = 1 =>
    /\ now < BOIDS_TIME => auto_log = <<>> /\ current_mode = MODE_NORMAL
    /\ now > BOIDS_TIME => Len(auto_log) >= 1
    /\ Len(auto_log) >= 1 =>
         auto_log[1].at = BOIDS_TIME /\ auto_log[1].to \in Patterns
    /\ Len(auto_log) = 1 =>
         current_mode = auto_log[1].to /\ now <= BOIDS_TIME + PATTERN_TIME
    /\ now > BOIDS_TIME + PATTERN_TIME => Len(auto_log) >= 2
    /\ Len(auto_log) >= 2 =>
         auto_log[2].at = BOIDS_TIME + PATTERN_TIME /\ auto_log[2].to = MODE_NORMAL
    /\ Len(auto_log) >= 1 => last_mode_change = auto_log[Len(auto_log)].at

C5_Witness ==
  /\ auto_mode = 1
  /\ Len(auto_log) = 2
  /\ now = BOIDS_TIME + PATTERN_TIME
  /\ current_mode = MODE_NORMAL

\* The last two key presses were of the same toggle key.
ToggledTwice == key_hist.twice /\ key_hist.last \in ToggleKeys

\* C6, as claimed: in manual mode two consecutive toggle inputs for pattern k
\* leave the mode Normal, whatever the mode was before them.
C6_TwiceIsNormal == ToggledTwice => current_mode = MODE_NORMAL

\* C6, amended: two consecutive toggle inputs for pattern k leave the mode
\* Normal when the mode before them was Normal or another pattern, and leave
\* it Pattern(k) when the mode before them was Pattern(k).
C6_TwiceRestores ==
  ToggledTwice =>
    current_mode = IF key_hist.twice_from THEN KeyPattern(key_hist.last)
                   ELSE MODE_NORMAL

C6_Witness == ToggledTwice /\ ~key_hist.twice_from /\ current_mode = MODE_NORMAL

\* C7, as claimed: the pattern clock is 0 after every mode transition, at the
\* end of the tick in which an automatic transition fired, and whenever the
\* mode is Normal.
C7_ClockZero ==
  /\ fired # "none" /\ ~AfterUpdate => pattern_time = 0
  /\ fired = "auto" /\ AfterUpdate => pattern_time = 0
  /\ current_mode = MODE_NORMAL => pattern_time = 0

\* C7, amended: the pattern clock is 0 after every mode transition until the
\* update of that tick, and whenever the mode is Normal; at the end of the
\* tick in which an automatic transition fired it is one step (0.01) when the
\* new mode is a pattern and 0 when the new mode is Normal.
C7_ClockZeroUntilUpdate ==
  /\ fired # "none" /\ ~AfterUpdate => pattern_time = 0
  /\ fired = "auto" /\ AfterUpdate =>
       pattern_time = IF current_mode = MODE_NORMAL THEN 0 ELSE PATTERN_STEP
  /\ current_mode = MODE_NORMAL => pattern_time = 0

C7_Witness ==
  /\ fired = "auto"
  /\ AfterUpdate
  /\ current_mode # MODE_NORMAL
  /\ pattern_time = PATTERN_STEP

\* C8: for every parameter and every viewport, a zero width or height
\* included, the divisor r of the hypocycloid and of the spirograph is
\* nonzero, and no division by zero is made.
C8_NoDivisionByZero ==
  curve_eval # NoCurve => curve_eval.divisor # 0 /\ ~curve_eval.nan

\* C9, as claimed: in Normal mode an agent without neighbor when it is
\* processed has after the tick the velocity it had before it.
C9_AloneKeepsVelocity ==
  AfterUpdate /\ current_mode = MODE_NORMAL =>
    \A i \in tick_alone :
      boids[i].vx = tick_pre[i].vx /\ boids[i].vy = tick_pre[i].vy

\* C9, amended: in Normal mode an agent without neighbor when it is processed
\* has after the tick the velocity limit_speed gives its velocity before the
\* tick: the velocity before, when its speed was at most MAX_SPEED.
C9_AloneOnlyLimited ==
  AfterUpdate /\ current_mode = MODE_NORMAL =>
    \A i \in tick_alone :
      /\ boids[i].vx = limit_speed(tick_pre[i]).vx
      /\ boids[i].vy = limit_speed(tick_pre[i]).vy
      /\ Speed(tick_pre[i]) <= MAX_SPEED =>
           boids[i].vx = tick_pre[i].vx /\ boids[i].vy = tick_pre[i].vy

C9_Witness ==
  /\ AfterUpdate
  /\ current_mode = MODE_NORMAL
  /\ \E i \in tick_alone :
       /\ Speed(tick_pre[i]) <= MAX_SPEED
       /\ tick_pre[i].vx # 0
  /\ \E i \in tick_alone : Speed(tick_pre[i]) > MAX_SPEED

\* C10: at every automatic Normal->Pattern transition the patterns that can
\* be selected are the 8 patterns but the one selected by the transition
\* before; at the first transition of a run they are all 8.
C10_AllButPrevious ==
  \A n \in 1 .. Len(PatternLog) :
    PatternLog[n].choices =
      IF n = 1 THEN Patterns ELSE Patterns \ {PatternLog[n - 1].to}

====
